---- MODULE Spec2Model ----
(***************************************************************************)
(* Model of the UEFI entry point `main` of data/hello-efi.rs.              *)
(*                                                                         *)
(*   fn main() -> Status {                                                 *)
(*       uefi::helpers::init().unwrap();                                   *)
(*       info!("Hello EFI world from Rust!");                              *)
(*       boot::stall(10_000_000);                                          *)
(*       Status::SUCCESS                                                   *)
(*   }                                                                     *)
(*                                                                         *)
(* The program is one thread of control.  Its position is `pc`; the        *)
(* firmware is the environment: it decides the outcome of init() and it    *)
(* owns the microsecond clock that boot::stall waits on.                   *)
(***************************************************************************)
EXTENDS Integers, Sequences, FiniteSets, TLC

VARIABLES
    pc,          \* position of main: the statement about to execute
    initResult,  \* value returned by uefi::helpers::init(): "none" until called
    console,     \* lines handed to the logging sink by info!, oldest first
    clock,       \* firmware timing service, in microseconds
    stallReq,    \* microseconds requested by the boot::stall call in progress
    stallStart,  \* clock value at which boot::stall was entered, -1 before
    status,      \* Status returned to the firmware loader, "none" until return
    events       \* history of the steps main has taken, oldest first

vars == <<pc, initResult, console, clock, stallReq, stallStart, status, events>>

----------------------------------------------------------------------------
(* Bounds of the model. *)

\* The firmware clock is left running freely only up to this value before
\* the stall begins; during the stall it runs until the stall can return.
MaxBootClock == 5000000

\* Increments by which the firmware clock is observed to advance.
TickSteps == {1000000, 2500000}

----------------------------------------------------------------------------
(* Program constants. *)

\* info!("Hello EFI world from Rust!")
HelloMessage == "Hello EFI world from Rust!"

\* A stall of ten milliseconds, as written by confusing the unit.
StallDurationMillis == 10 * 1000

\* boot::stall(10_000_000)
StallDuration == 10000000

\* Status::SUCCESS
StatusSuccess == "SUCCESS"

\* Non-success values of uefi::Status that an entry point could return.
FailureStatuses == {"ABORTED", "LOAD_ERROR", "UNSUPPORTED"}

\* uefi::helpers::init() returns a Result: Ok(()) or Err(_).
InitOutcomes == {"Ok", "Err"}

----------------------------------------------------------------------------
(* Pure helpers. *)

\* The entry point starts at the first statement of the body; the variant
\* starts at the info! line, as if the two first lines were swapped.
EntryPcLogFirst == "log"

EntryPc == "init"

\* Result::unwrap: continue with the next statement on Ok, panic on Err.
\* The variant discards the result (`let _ = init();`).
UnwrapIgnoreErr(r) == "log"

UnwrapTarget(r) == IF r = "Ok" THEN "log" ELSE "panicked"

\* The line the logging sink records for one info! invocation.  The variant
\* records it twice.
LoggedTwice(cons, msg) == Append(Append(cons, msg), msg)

Logged(cons, msg) == Append(cons, msg)

\* The firmware Stall service returns once at least d microseconds have
\* elapsed since it was entered.
StallElapsed(d, start, now) == now - start >= d

\* The statement after boot::stall returns; the variant returns a failure.
ReturnedStatusAborted == "ABORTED"

ReturnedStatus == StatusSuccess

\* The statement that follows info!; the variant skips the stall.
AfterLogSkipStall == "ret"

AfterLog == "stall"

\* Lifecycle of the boot session as main's state determines it:
\* Uninitialized until init() has returned Ok, Terminated once main has
\* returned its status to the firmware.
SessionState ==
    IF status # "none" THEN "Terminated"
    ELSE IF initResult = "Ok" THEN "Initialized"
    ELSE "Uninitialized"

Rank(s) == CASE s = "Uninitialized" -> 0
             [] s = "Initialized"   -> 1
             [] s = "Terminated"    -> 2

IsPrefix(s, t) == Len(s) <= Len(t) /\ \A i \in 1..Len(s) : s[i] = t[i]

\* The steps of a complete run of main, in program order.
FullOrder == <<"init", "log", "stall", "stall_done", "return">>

----------------------------------------------------------------------------
(* Initial state: the firmware loader has just transferred control. *)

Init ==
    /\ pc = EntryPc
    /\ initResult = "none"
    /\ console = <<>>
    /\ clock = 0
    /\ stallReq = 0
    /\ stallStart = -1
    /\ status = "none"
    /\ events = <<>>

----------------------------------------------------------------------------
(* Steps of main. *)

\* uefi::helpers::init() is called and returns its Result to main.
HelpersInit ==
    /\ pc = "init"
    /\ \E r \in InitOutcomes : initResult' = r
    /\ pc' = "unwrap"
    /\ events' = Append(events, "init")
    /\ UNCHANGED <<console, clock, stallReq, stallStart, status>>

\* .unwrap() on the Result: fall through on Ok, panic on Err.  The panic
\* handler has type `!`: control never comes back to main.
Unwrap ==
    /\ pc = "unwrap"
    /\ pc' = UnwrapTarget(initResult)
    /\ UNCHANGED <<initResult, console, clock, stallReq, stallStart, status, events>>

\* info!("Hello EFI world from Rust!")
LogInfo ==
    /\ pc = "log"
    /\ console' = Logged(console, HelloMessage)
    /\ pc' = AfterLog
    /\ events' = Append(events, "log")
    /\ UNCHANGED <<initResult, clock, stallReq, stallStart, status>>

\* boot::stall(10_000_000) is entered.
StallCall ==
    /\ pc = "stall"
    /\ stallReq' = StallDuration
    /\ stallStart' = clock
    /\ pc' = "stalling"
    /\ events' = Append(events, "stall")
    /\ UNCHANGED <<initResult, console, clock, status>>

\* boot::stall returns to main.
StallReturn ==
    /\ pc = "stalling"
    /\ StallElapsed(stallReq, stallStart, clock)
    /\ pc' = "ret"
    /\ events' = Append(events, "stall_done")
    /\ UNCHANGED <<initResult, console, clock, stallReq, stallStart, status>>

\* Status::SUCCESS is returned to the firmware loader.
Return ==
    /\ pc = "ret"
    /\ status' = ReturnedStatus
    /\ pc' = "done"
    /\ events' = Append(events, "return")
    /\ UNCHANGED <<initResult, console, clock, stallReq, stallStart>>

MainStep == HelpersInit \/ Unwrap \/ LogInfo \/ StallCall \/ StallReturn \/ Return

----------------------------------------------------------------------------
(* Environment: the firmware clock advances. *)

Tick ==
    /\ IF pc = "stalling"
         THEN ~StallElapsed(stallReq, stallStart, clock)
         ELSE clock < MaxBootClock
    /\ \E d \in TickSteps : clock' = clock + d
    /\ UNCHANGED <<pc, initResult, console, stallReq, stallStart, status, events>>

Next == MainStep \/ Tick

Spec == Init /\ [][Next]_vars

\* main runs to completion whenever it can step, and the firmware clock
\* keeps running, so a stall in progress is eventually served.
FairSpec == Spec /\ WF_vars(MainStep) /\ WF_vars(Tick)

TypeOK ==
    /\ pc \in {"init", "unwrap", "log", "stall", "stalling", "ret", "done", "panicked"}
    /\ initResult \in InitOutcomes \cup {"none"}
    /\ console \in Seq({HelloMessage})
    /\ clock \in Nat
    /\ stallReq \in Nat
    /\ stallStart \in Nat \cup {-1}
    /\ status \in {"none", StatusSuccess} \cup FailureStatuses
    /\ events \in Seq({"init", "log", "stall", "stall_done", "return"})

----------------------------------------------------------------------------
(* Properties of the entry point. *)

\* C3 (as stated): when the run init -> log -> stall -> return has
\* completed, the status is SUCCESS and the console holds exactly one line,
\* equal to "Hello EFI world".
C3_LineIsHelloEfiWorld ==
    pc = "done" => status = "SUCCESS" /\ console = <<"Hello EFI world">>

\* C3 (amended): when the run init -> log -> stall -> return has completed,
\* the status is SUCCESS and the console holds exactly one line, equal to
\* "Hello EFI world from Rust!".
C3_LineIsHelloFromRust ==
    pc = "done" => status = "SUCCESS" /\ console = <<"Hello EFI world from Rust!">>

C3_RunCompleted == pc = "done" /\ Len(console) = 1 /\ stallStart >= 0

\* C4: a failure of initialization reaches the entry-point boundary as a
\* non-success Status returned to the firmware; main never aborts without
\* returning a status.
C4_FaultReturnsStatus ==
    /\ pc # "panicked"
    /\ (initResult = "Err" /\ pc = "done") => status \in FailureStatuses

C6_Lifecycle ==
    [][ /\ Rank(SessionState') >= Rank(SessionState)
        /\ (console' # console \/ stallStart' # stallStart)
              => SessionState = "Initialized"
        /\ pc' = "stalling" => SessionState' = "Initialized"
        /\ SessionState = "Terminated"
              => UNCHANGED <<pc, initResult, console, stallReq, stallStart, status>>
      ]_vars

C6_Terminated == SessionState = "Terminated" /\ console # <<>> /\ stallStart >= 0

C9_FixedOrder ==
    /\ IsPrefix(events, FullOrder)
    /\ initResult # "Ok" => (Len(events) <= 1 /\ console = <<>> /\ stallStart = -1)
    /\ stallStart >= 0 => Len(console) = 1
    /\ status # "none" =>
          /\ status = "SUCCESS"
          /\ events = FullOrder

C9_AllStepsTaken == events = FullOrder

\* C10: if init() succeeds (and the firmware serves the stall), main
\* eventually returns; the only status main ever returns is SUCCESS.
C10_ReturnsSuccess ==
    /\ [](status \in {"none", "SUCCESS"})
    /\ (initResult = "Ok") ~> (pc = "done" /\ status = "SUCCESS")

C10_Returned == initResult = "Ok" /\ status = "SUCCESS"

====
